---- MODULE Spec2Model ----
(***************************************************************************)
(* KPI health classification and insight generation of the Business       *)
(* Health Dashboard (src/src/lib/business-logic/thresholds.ts and          *)
(* insight-rules.ts).                                                      *)
(*                                                                         *)
(* Numbers: KPI values and band limits are fixed-point numbers in          *)
(* hundredths, written Dec(whole, hundredths): 87.2 is Dec(87, 20).        *)
(* Comparisons on them are the comparisons of the source numbers.          *)
(***************************************************************************)
EXTENDS Integers, Sequences, FiniteSets, TLC

VARIABLES
    registry,   \* thresholds.ts: the module-level thresholdRules object
    ruleTable,  \* insight-rules.ts: the module-level insightRules array
    kpiId,      \* calculateHealthStatus: argument kpiId
    value,      \* calculateHealthStatus: argument value
    status,     \* calculateHealthStatus: returned state, "none" before the call
    kpiData,    \* generateInsights: argument kpiData
    clk,        \* the wall-clock readings of the latest generateInsights call
    insights,   \* the array returned by the latest generateInsights call
    prev,       \* history: kpiId, title and priority of the array the call before
                \* returned; for the services, the answers given so far, in order
    calls,      \* number of generateInsights calls made on kpiData
    now,        \* the wall clock: the latest reading any call has taken
    trend,      \* the trend of the raw reading (kpiId, value, trend)
    forKpi,     \* the array returned by getInsightsForKPI, empty before the call
    mockInsights,  \* services: the module-level insight store
    pending,    \* updateInsight calls that wait in their delay
    started,    \* number of updateInsight calls made so far
    response,   \* the latest answer of a service call, with the call it answers
    service     \* the service module that was loaded, "none" if none was

storeVars == <<mockInsights, pending, started, response, service>>

vars == <<registry, ruleTable, kpiId, value, status, kpiData, clk, insights, prev, calls,
          now, trend, forKpi, mockInsights, pending, started, response, service>>

Dec(whole, hundredths) == whole * 100 + hundredths

-----------------------------------------------------------------------------
(* thresholds.ts *)

\* A band is a record with an optional min and an optional max field.
thresholdRules ==
    ("revenue" :> [kpiId |-> "revenue",
                   excellent |-> [min |-> Dec(1000000, 0)],
                   good |-> [min |-> Dec(500000, 0), max |-> Dec(999999, 0)],
                   warning |-> [min |-> Dec(250000, 0), max |-> Dec(499999, 0)],
                   critical |-> [max |-> Dec(249999, 0)]])
    @@ ("revenue-growth" :> [kpiId |-> "revenue-growth",
                   excellent |-> [min |-> Dec(20, 0)],
                   good |-> [min |-> Dec(10, 0), max |-> Dec(19, 90)],
                   warning |-> [min |-> Dec(0, 0), max |-> Dec(9, 90)],
                   critical |-> [max |-> 0 - Dec(0, 10)]])
    @@ ("profit-margin" :> [kpiId |-> "profit-margin",
                   excellent |-> [min |-> Dec(20, 0)],
                   good |-> [min |-> Dec(15, 0), max |-> Dec(19, 90)],
                   warning |-> [min |-> Dec(10, 0), max |-> Dec(14, 90)],
                   critical |-> [max |-> Dec(9, 90)]])
    @@ ("expense-ratio" :> [kpiId |-> "expense-ratio",
                   excellent |-> [max |-> Dec(70, 0)],
                   good |-> [min |-> Dec(70, 10), max |-> Dec(80, 0)],
                   warning |-> [min |-> Dec(80, 10), max |-> Dec(90, 0)],
                   critical |-> [min |-> Dec(90, 10)]])
    @@ ("customer-health" :> [kpiId |-> "customer-health",
                   excellent |-> [min |-> Dec(85, 0)],
                   good |-> [min |-> Dec(70, 0), max |-> Dec(84, 90)],
                   warning |-> [min |-> Dec(50, 0), max |-> Dec(69, 90)],
                   critical |-> [max |-> Dec(49, 90)]])
    @@ ("churn-rate" :> [kpiId |-> "churn-rate",
                   excellent |-> [max |-> Dec(2, 0)],
                   good |-> [min |-> Dec(2, 10), max |-> Dec(5, 0)],
                   warning |-> [min |-> Dec(5, 10), max |-> Dec(10, 0)],
                   critical |-> [min |-> Dec(10, 10)]])
    @@ ("clv" :> [kpiId |-> "clv",
                   excellent |-> [min |-> Dec(10000, 0)],
                   good |-> [min |-> Dec(5000, 0), max |-> Dec(9999, 0)],
                   warning |-> [min |-> Dec(2000, 0), max |-> Dec(4999, 0)],
                   critical |-> [max |-> Dec(1999, 0)]])

\* The test each of the four if-statements of calculateHealthStatus applies
\* to its band: (min !== undefined && value >= min) ||
\*              (max !== undefined && value <= max).
BandTest_MaxOnly(band, v) ==
    "max" \in DOMAIN band /\ v <= band.max

BandTest(band, v) ==
    \/ ("min" \in DOMAIN band /\ v >= band.min)
    \/ ("max" \in DOMAIN band /\ v <= band.max)

\* The names every object literal inherits from Object.prototype. The lookup
\* thresholdRules[kpiId] finds the inherited member under such a name, and
\* the member is truthy, so `!rule` is false for it.
InheritedNames ==
    {"constructor", "__proto__", "hasOwnProperty", "isPrototypeOf",
     "propertyIsEnumerable", "toLocaleString", "toString", "valueOf",
     "__defineGetter__", "__defineSetter__", "__lookupGetter__",
     "__lookupSetter__"}

\* thresholdRules[kpiId] passes the test `!rule`: the registry has no own
\* entry and no inherited member under the name
NoRule(k) == k \notin DOMAIN registry /\ k \notin InheritedNames

calculateHealthStatus_NoRuleWarning(k, v) ==
    IF NoRule(k) THEN "warning"
    ELSE IF k \notin DOMAIN registry THEN "TypeError"
    ELSE LET rule == registry[k] IN
         IF BandTest(rule.critical, v) THEN "critical"
         ELSE IF BandTest(rule.warning, v) THEN "warning"
         ELSE IF BandTest(rule.good, v) THEN "good"
         ELSE IF BandTest(rule.excellent, v) THEN "excellent"
         ELSE "good"

\* An inherited member has no critical field, so reading rule.critical.min
\* throws; the result is then "TypeError".
calculateHealthStatus(k, v) ==
    IF NoRule(k) THEN "good"
    ELSE IF k \notin DOMAIN registry THEN "TypeError"
    ELSE LET rule == registry[k] IN
         IF BandTest(rule.critical, v) THEN "critical"
         ELSE IF BandTest(rule.warning, v) THEN "warning"
         ELSE IF BandTest(rule.good, v) THEN "good"
         ELSE IF BandTest(rule.excellent, v) THEN "excellent"
         ELSE "good"

\* Every inherited member but __proto__ (which is Object.prototype itself)
\* is a function.
InheritedFunctions == InheritedNames \ {"__proto__"}

\* What a function has besides the members of Object.prototype: its own
\* length and name, and call, apply and bind of Function.prototype.
FunctionMembers == {"length", "name", "call", "apply", "bind"}

\* the functions declared without parameters: their length is 0, falsy
ZeroLengthFunctions == {"toString", "toLocaleString", "valueOf"}

\* the accessors of Function.prototype that throw a TypeError when read
ThrowingMembers == {"arguments", "caller"}

\* the own members of the constructor Object (ECMAScript 2022)
ObjectStatics ==
    {"prototype", "assign", "create", "defineProperties", "defineProperty",
     "entries", "freeze", "fromEntries", "getOwnPropertyDescriptor",
     "getOwnPropertyDescriptors", "getOwnPropertyNames",
     "getOwnPropertySymbols", "getPrototypeOf", "hasOwn", "is",
     "isExtensible", "isFrozen", "isSealed", "keys", "preventExtensions",
     "seal", "setPrototypeOf", "values"}

\* reading rule[status] throws: rule is an inherited function and status
\* names a throwing accessor
ThresholdThrows(k, s) ==
    k \notin DOMAIN registry /\ k \in InheritedFunctions /\ s \in ThrowingMembers

\* rule[status] is falsy (`if (!threshold) return false`). An own rule has
\* its fields and the inherited members, all truthy. Object.prototype has
\* the inherited members, and its __proto__ is null. An inherited function
\* has the inherited members and the function members, all truthy but a
\* length of 0; Object has its own members too.
NoThreshold(k, s) ==
    IF k \in DOMAIN registry
    THEN s \notin DOMAIN registry[k] /\ s \notin InheritedNames
    ELSE IF k = "__proto__" THEN s \notin InheritedFunctions
    ELSE IF s = "length" THEN k \in ZeroLengthFunctions
    ELSE /\ s \notin InheritedNames \cup FunctionMembers
         /\ ~(k = "constructor" /\ s \in ObjectStatics)

\* isWithinThreshold(kpiId, value, status): value lies in the band's range.
\* A threshold that is no band (the kpiId string, a member of an inherited
\* object) has neither min nor max, and both checks are true. A read that
\* throws gives "TypeError".
isWithinThreshold(k, v, s) ==
    IF NoRule(k) THEN TRUE
    ELSE IF ThresholdThrows(k, s) THEN "TypeError"
    ELSE IF NoThreshold(k, s) THEN FALSE
    ELSE IF k \in DOMAIN registry /\ s \in DOMAIN registry[k] /\ s # "kpiId"
    THEN LET threshold == registry[k][s]
             minCheck == IF "min" \in DOMAIN threshold THEN v >= threshold.min ELSE TRUE
             maxCheck == IF "max" \in DOMAIN threshold THEN v <= threshold.max ELSE TRUE
         IN  minCheck /\ maxCheck
    ELSE TRUE

\* The rule table, in registration order. condition and generateInsight of
\* each rule are the operators below, selected by the rule's id.
insightRules == <<
    [id |-> "revenue-decline", name |-> "Revenue Decline Detection",
     kpiId |-> "revenue", priority |-> "high"],
    [id |-> "profit-margin-erosion", name |-> "Profit Margin Erosion",
     kpiId |-> "profit-margin", priority |-> "high"],
    [id |-> "expense-ratio-increase", name |-> "Rising Expense Ratio",
     kpiId |-> "expense-ratio", priority |-> "medium"],
    [id |-> "customer-health-decline", name |-> "Customer Health Deterioration",
     kpiId |-> "customer-health", priority |-> "high"],
    [id |-> "revenue-growth-slowdown", name |-> "Revenue Growth Slowdown",
     kpiId |-> "revenue-growth", priority |-> "medium"],
    [id |-> "critical-profit-margin", name |-> "Critical Profit Margin",
     kpiId |-> "profit-margin", priority |-> "high"],
    [id |-> "excellent-revenue-growth", name |-> "Excellent Revenue Growth",
     kpiId |-> "revenue-growth", priority |-> "medium"] >>

-----------------------------------------------------------------------------
(* Inputs of the classifier *)

\* ids of the readings of app/services/api-client.ts that have a threshold
\* rule, and those that have none
RegisteredIds == DOMAIN thresholdRules
UnregisteredIds == {"cac", "ltv-cac-ratio", "mrr", "arr", "nps", "csat",
                    "operational-efficiency", "employee-satisfaction",
                    "market-share"}
KpiIds == RegisteredIds \cup UnregisteredIds

BandNames == {"excellent", "good", "warning", "critical"}

\* every limit of every band of the registry
BandLimits ==
    UNION {UNION {{thresholdRules[k][s][f] : f \in DOMAIN thresholdRules[k][s]}
                  : s \in BandNames} : k \in RegisteredIds}

\* values at, next to and between the limits, and the current values of the
\* readings in services/mock-api.ts and api-client.ts
Values ==
    {b + d : b \in BandLimits, d \in {0 - 50, 0 - 1, 0, 1, 50}}
    \cup {Dec(850000, 0), Dec(8, 50), Dec(12, 80), Dec(87, 20), Dec(72, 50),
          Dec(6, 20), Dec(4200, 0), Dec(8, 0), Dec(25, 0)}

\* configurations of one rule with limits in 0..MaxBandLimit: a band has a
\* min, a max, both or neither (min and max are optional members), and
\* bands may overlap or leave gaps
MaxBandLimit == 1
Unbounded == [f \in {} |-> 0]
BandSpace ==
    [min : 0..MaxBandLimit, max : 0..MaxBandLimit]
    \cup [min : 0..MaxBandLimit] \cup [max : 0..MaxBandLimit]
    \cup {Unbounded}
RuleSpace ==
    [kpiId : {"revenue"}, excellent : BandSpace, good : BandSpace,
     warning : BandSpace, critical : BandSpace]

\* no service call has been answered
NoResponse == [op |-> "none"]

NoStore ==
    /\ mockInsights = <<>>
    /\ pending = {}
    /\ started = 0
    /\ response = NoResponse
    /\ service = "none"

NoInsightCall ==
    /\ kpiData = <<>>
    /\ clk = <<>>
    /\ insights = <<>>
    /\ prev = <<>>
    /\ calls = 0
    /\ now = 0
    /\ forKpi = <<>>
    /\ NoStore

\* the id arguments: the ids of the KPIId type, and strings outside it
\* that name an inherited member
InitClassify ==
    /\ registry = thresholdRules
    /\ ruleTable = insightRules
    /\ kpiId \in KpiIds \cup {"constructor", "__proto__"}
    /\ value \in Values
    /\ trend = "stable"
    /\ status = "none"
    /\ NoInsightCall

InitBands ==
    /\ registry \in {("revenue" :> r) : r \in RuleSpace}
    /\ ruleTable = insightRules
    /\ kpiId = "revenue"
    /\ value \in (0 - 1)..(MaxBandLimit + 1)
    /\ trend = "stable"
    /\ status = "none"
    /\ NoInsightCall

Classify_RegistersDefault ==
    /\ status = "none"
    /\ status' = calculateHealthStatus(kpiId, value)
    /\ registry' = IF kpiId \in DOMAIN registry THEN registry
                   ELSE registry @@ (kpiId :> thresholdRules["revenue"])
    /\ UNCHANGED <<ruleTable, kpiId, value, kpiData, clk, insights, prev,
                   calls, now>>
    /\ UNCHANGED <<trend, forKpi, storeVars>>

\* one call calculateHealthStatus(kpiId, value)
Classify ==
    /\ status = "none"
    /\ status' = calculateHealthStatus(kpiId, value)
    /\ UNCHANGED <<registry, ruleTable, kpiId, value, kpiData, clk, insights, prev,
                   calls, now>>
    /\ UNCHANGED <<trend, forKpi, storeVars>>

NextClassify == Classify

SpecClassify == InitClassify /\ [][NextClassify]_vars
SpecBands == InitBands /\ [][NextClassify]_vars

-----------------------------------------------------------------------------
(* Claims about the classifier *)

BandOrder == <<"critical", "warning", "good", "excellent">>

\* the bands whose [min, max] range holds the value, by position in BandOrder
MatchingBands(k, v) == {i \in 1..4 : isWithinThreshold(k, v, BandOrder[i])}

FirstMatchingBand(k, v) ==
    BandOrder[CHOOSE i \in MatchingBands(k, v) :
                  \A j \in MatchingBands(k, v) : i <= j]

Classified == status # "none"

\* C1: for a registered KPI and a value that some band's range holds
\* (min absent or value >= min, and max absent or value <= max), the returned
\* state is that of the first such band in the order critical, warning, good,
\* excellent.
C1_FirstMatchingBand ==
    (Classified /\ kpiId \in DOMAIN registry /\ MatchingBands(kpiId, value) # {})
        => status = FirstMatchingBand(kpiId, value)

\* C2: for 'revenue' every value from 500000 to 999999 is classified good and
\* every value of 1000000 or more excellent.
C2_RevenueGoodExcellent ==
    (Classified /\ kpiId = "revenue")
        => /\ (value >= Dec(500000, 0) /\ value <= Dec(999999, 0)) => status = "good"
           /\ value >= Dec(1000000, 0) => status = "excellent"

\* C3: for a rule whose critical band has a min or a max, as every critical
\* band of thresholdRules has, a value inside both the critical and the
\* warning range of the rule is classified critical.
C3_CriticalBeforeWarning ==
    (/\ Classified
     /\ kpiId \in DOMAIN registry
     /\ DOMAIN registry[kpiId].critical # {}
     /\ isWithinThreshold(kpiId, value, "critical")
     /\ isWithinThreshold(kpiId, value, "warning"))
        => status = "critical"

\* a critical band with a min only and a warning band that overlaps it
C3_Witness ==
    /\ Classified
    /\ registry["revenue"].critical = [min |-> 0]
    /\ registry["revenue"].warning = [min |-> 1, max |-> 1]
    /\ value = 1
    /\ isWithinThreshold(kpiId, value, "critical")
    /\ isWithinThreshold(kpiId, value, "warning")
    /\ status = "critical"

\* C4: a KPI id without a threshold rule is classified good, whatever the
\* value, and the call does not throw. The KPI ids are the sixteen ids of the
\* KPIId type (the keys of kpiDefinitions).
C4_UnknownIdGood ==
    (Classified /\ kpiId \in KpiIds /\ kpiId \notin DOMAIN registry)
        => status = "good"

C4_Witness ==
    /\ Classified
    /\ kpiId = "cac"
    /\ kpiId \notin DOMAIN registry
    /\ value = Dec(850000, 0)
    /\ status = "good"

\* C5: for a registered KPI, a value that lies in none of the four bands'
\* ranges is classified good.
C5_GapGood ==
    (Classified /\ kpiId \in DOMAIN registry /\ MatchingBands(kpiId, value) = {})
        => status = "good"

-----------------------------------------------------------------------------
(* insight-rules.ts *)

condition_ExpenseOver90(rule, data) ==
    CASE rule.id = "revenue-decline" ->
            data.trend = "down" /\ data.healthStatus = "warning"
      [] rule.id = "profit-margin-erosion" ->
            data.trend = "down" /\ data.currentValue < Dec(15, 0)
      [] rule.id = "expense-ratio-increase" ->
            data.trend = "up" /\ data.currentValue > Dec(90, 0)
      [] rule.id = "customer-health-decline" ->
            data.trend = "down" /\ data.currentValue < Dec(70, 0)
      [] rule.id = "revenue-growth-slowdown" ->
            data.trend = "down" /\ data.currentValue < Dec(10, 0)
      [] rule.id = "critical-profit-margin" ->
            data.healthStatus = "critical"
      [] rule.id = "excellent-revenue-growth" ->
            data.healthStatus = "excellent" /\ data.trend = "up"

\* rule.condition(data)
condition(rule, data) ==
    CASE rule.id = "revenue-decline" ->
            data.trend = "down" /\ data.healthStatus = "warning"
      [] rule.id = "profit-margin-erosion" ->
            data.trend = "down" /\ data.currentValue < Dec(15, 0)
      [] rule.id = "expense-ratio-increase" ->
            data.trend = "up" /\ data.currentValue > Dec(85, 0)
      [] rule.id = "customer-health-decline" ->
            data.trend = "down" /\ data.currentValue < Dec(70, 0)
      [] rule.id = "revenue-growth-slowdown" ->
            data.trend = "down" /\ data.currentValue < Dec(10, 0)
      [] rule.id = "critical-profit-margin" ->
            data.healthStatus = "critical"
      [] rule.id = "excellent-revenue-growth" ->
            data.healthStatus = "excellent" /\ data.trend = "up"

\* rule.generateInsight(data): the fields kpiId, title and priority of the
\* object literal each rule returns (observation, businessImpact and action
\* are display text and are not modelled)
generateInsight(rule, data) ==
    CASE rule.id = "revenue-decline" ->
            [kpiId |-> data.id, title |-> "Revenue Decline Detected",
             priority |-> "high"]
      [] rule.id = "profit-margin-erosion" ->
            [kpiId |-> data.id, title |-> "Profit Margin Under Pressure",
             priority |-> "high"]
      [] rule.id = "expense-ratio-increase" ->
            [kpiId |-> data.id, title |-> "Expense Ratio Rising",
             priority |-> "medium"]
      [] rule.id = "customer-health-decline" ->
            [kpiId |-> data.id, title |-> "Customer Satisfaction Declining",
             priority |-> "high"]
      [] rule.id = "revenue-growth-slowdown" ->
            [kpiId |-> data.id, title |-> "Growth Momentum Slowing",
             priority |-> "medium"]
      [] rule.id = "critical-profit-margin" ->
            [kpiId |-> data.id, title |-> "Critical Profit Margin Alert",
             priority |-> "high"]
      [] rule.id = "excellent-revenue-growth" ->
            [kpiId |-> data.id, title |-> "Exceptional Growth Performance",
             priority |-> "medium"]

\* The object pushed at insight-rules.ts:143-148. The id string
NewInsight_RuleKpiId(rule, data, t, g) ==
    LET insightData == generateInsight(rule, data) IN
    [kpiId |-> rule.kpiId,
     title |-> insightData.title,
     priority |-> insightData.priority,
     id |-> <<rule.id, data.id, t>>,
     generatedAt |-> g,
     isAutoGenerated |-> TRUE]

\* `${rule.id}-${data.id}-${Date.now()}` is kept as its three parts: no rule
\* id of the table is a prefix of another one, so two id strings are equal
\* exactly when the three parts are. t is the reading of Date.now(), g the
\* reading of new Date().
NewInsight(rule, data, t, g) ==
    LET insightData == generateInsight(rule, data) IN
    [kpiId |-> insightData.kpiId,
     title |-> insightData.title,
     priority |-> insightData.priority,
     id |-> <<rule.id, data.id, t>>,
     generatedAt |-> g,
     isAutoGenerated |-> TRUE]

\* the inner loop insightRules.forEach for one KPI: the rules that pass the
\* if at insight-rules.ts:141, in table order
FiredRules_TargetOnly(data) ==
    SelectSeq(ruleTable, LAMBDA rule : rule.kpiId = data.id /\ condition(rule, data))

FiredRules(data) ==
    SelectSeq(ruleTable, LAMBDA rule : condition(rule, data))

RECURSIVE Pairs(_, _)
\* the (rule, data) pairs for which the two nested loops push, in push order
Pairs(list, i) ==
    IF i > Len(list) THEN <<>>
    ELSE LET fired == FiredRules(list[i]) IN
         [j \in 1..Len(fired) |-> [rule |-> fired[j], data |-> list[i]]]
         \o Pairs(list, i + 1)

Pushed_FirstKpiOnly(list, readings) ==
    LET pairs == SelectSeq(Pairs(list, 1), LAMBDA x : x.data = list[1]) IN
    [n \in 1..Len(pairs) |->
        NewInsight(pairs[n].rule, pairs[n].data,
                   readings[2 * n - 1], readings[2 * n])]

\* the insights array after the loops: push number n reads the clock twice,
\* readings[2n - 1] for the id and readings[2n] for generatedAt
Pushed(list, readings) ==
    LET pairs == Pairs(list, 1) IN
    [n \in 1..Len(pairs) |->
        NewInsight(pairs[n].rule, pairs[n].data,
                   readings[2 * n - 1], readings[2 * n])]

priorityOrder == [high |-> 0, medium |-> 1, low |-> 2]

\* the comparator passed to sort
compare_ThenNewest(a, b) ==
    IF priorityOrder[a.priority] # priorityOrder[b.priority]
    THEN priorityOrder[a.priority] - priorityOrder[b.priority]
    ELSE b.id[3] - a.id[3]

compare_Reversed(a, b) == priorityOrder[b.priority] - priorityOrder[a.priority]

compare(a, b) == priorityOrder[a.priority] - priorityOrder[b.priority]

RECURSIVE InsertSorted_Unstable(_, _)
InsertSorted_Unstable(s, x) ==
    IF s = <<>> THEN <<x>>
    ELSE IF compare(s[Len(s)], x) >= 0
         THEN Append(InsertSorted_Unstable(SubSeq(s, 1, Len(s) - 1), x), s[Len(s)])
         ELSE Append(s, x)

RECURSIVE InsertSorted(_, _)
\* Array.prototype.sort is a stable sort (ECMAScript 2019); for arrays this
\* short the engine sorts by insertion: x moves left past every element that
\* compares greater than it
InsertSorted(s, x) ==
    IF s = <<>> THEN <<x>>
    ELSE IF compare(s[Len(s)], x) > 0
         THEN Append(InsertSorted(SubSeq(s, 1, Len(s) - 1), x), s[Len(s)])
         ELSE Append(s, x)

RECURSIVE sort(_)
sort(s) ==
    IF s = <<>> THEN <<>>
    ELSE InsertSorted(sort(SubSeq(s, 1, Len(s) - 1)), s[Len(s)])

\* generateInsights(kpiData), with the clock readings it takes
generateInsights(list, readings) == sort(Pushed(list, readings))

-----------------------------------------------------------------------------
(* Inputs of the insight engine *)

MaxKpis == 2      \* longest list of classified KPIs
MaxClock == 1     \* the wall clock reads 0..MaxClock
MaxCalls == 2     \* calls of one function in one run

\* (currentValue, trend, healthStatus) of a classified KPI: readings of
\* services/mock-api.ts:22-103 (72.5 down warning, 87.2 up warning) and
\* readings that are critical, excellent or stable; between them they
\* satisfy every rule of the table
Profiles == {
    <<Dec(8, 0), "down", "critical">>,
    <<Dec(72, 50), "down", "warning">>,
    <<Dec(87, 20), "up", "warning">>,
    <<Dec(25, 0), "up", "excellent">>,
    <<Dec(72, 50), "stable", "good">> }

SampleIds == {"profit-margin", "revenue-growth"}

KpiSamples ==
    {[id |-> k, currentValue |-> p[1], trend |-> p[2], healthStatus |-> p[3]]
        : k \in SampleIds, p \in Profiles}

KpiLists == UNION {[1..n -> KpiSamples] : n \in 0..MaxKpis}

RECURSIVE Readings(_, _)
\* the sequences of n successive clock readings, the first at lo or later
Readings(n, lo) ==
    IF n = 0 THEN {<<>>}
    ELSE UNION {{<<t>> \o r : r \in Readings(n - 1, t)} : t \in lo..MaxClock}

Init ==
    /\ registry = thresholdRules
    /\ ruleTable = insightRules
    /\ kpiId = "revenue"
    /\ value = 0
    /\ trend = "stable"
    /\ status = "none"
    /\ kpiData \in KpiLists
    /\ clk = <<>>
    /\ insights = <<>>
    /\ prev = <<>>
    /\ calls = 0
    /\ now = 0
    /\ forKpi = <<>>
    /\ NoStore

\* what a comparison of two returned arrays looks at: kpiId, title and
\* priority at every position
Content(s) ==
    [p \in 1..Len(s) |->
        [kpiId |-> s[p].kpiId, title |-> s[p].title, priority |-> s[p].priority]]

\* one call generateInsights(kpiData)
GenerateInsights ==
    /\ calls < MaxCalls
    /\ \E readings \in Readings(2 * Len(Pairs(kpiData, 1)), now) :
          /\ clk' = readings
          /\ insights' = generateInsights(kpiData, readings)
          /\ now' = IF readings = <<>> THEN now ELSE readings[Len(readings)]
    /\ prev' = Content(insights)
    /\ calls' = calls + 1
    /\ UNCHANGED <<registry, ruleTable, kpiId, value, status, kpiData>>
    /\ UNCHANGED <<trend, forKpi, storeVars>>

Next == GenerateInsights

Spec == Init /\ [][Next]_vars

-----------------------------------------------------------------------------
(* Claims about generateInsights *)

Generated == calls > 0

RuleIndex(ruleId) == CHOOSE j \in 1..Len(insightRules) : insightRules[j].id = ruleId

\* the KPIs of the input list, by position, whose reading satisfies rule j
Satisfying(j) ==
    {i \in 1..Len(kpiData) : condition(insightRules[j], kpiData[i])}

\* the positions of the output that hold an insight of rule j about KPI id k
Emitted(j, k) ==
    {p \in 1..Len(insights) :
        /\ insights[p].id[1] = insightRules[j].id
        /\ insights[p].kpiId = k}

\* C6: the output holds exactly one insight for each pair (KPI of the list,
\* rule) whose condition is true, and no other insight.
C6_OneInsightPerSatisfiedPair ==
    Generated =>
        /\ \A j \in 1..Len(insightRules) : \A k \in SampleIds :
              Cardinality(Emitted(j, k))
                  = Cardinality({i \in Satisfying(j) : kpiData[i].id = k})
        /\ \A p \in 1..Len(insights) :
              \E j \in 1..Len(insightRules) : \E i \in Satisfying(j) :
                  /\ insights[p].id[1] = insightRules[j].id
                  /\ insights[p].kpiId = kpiData[i].id
                  /\ insights[p].title = generateInsight(insightRules[j], kpiData[i]).title

\* a KPI that satisfies several rules, one of them a rule for another KPI,
\* next to a KPI that satisfies none
C6_Witness ==
    /\ Generated
    /\ Len(kpiData) = 2
    /\ kpiData[1].id = "revenue-growth"
    /\ Cardinality({j \in 1..Len(insightRules) : 1 \in Satisfying(j)}) = 4
    /\ {j \in 1..Len(insightRules) : 2 \in Satisfying(j)} = {}
    /\ Len(insights) = 4

Rank(priority) ==
    CASE priority = "high" -> 0 [] priority = "medium" -> 1 [] priority = "low" -> 2

\* C7: the output is ordered by priority rank high < medium < low.
C7_SortedByPriority ==
    Generated =>
        \A p \in 1..Len(insights) : \A q \in 1..Len(insights) :
            p < q => Rank(insights[p].priority) <= Rank(insights[q].priority)

\* the loops pushed a medium insight before a high one, and the output holds
\* both
C7_Witness ==
    /\ Generated
    /\ LET pushed == Pushed(kpiData, clk) IN
       \E p \in 1..Len(pushed) : \E q \in 1..Len(pushed) :
           p < q /\ pushed[p].priority = "medium" /\ pushed[q].priority = "high"
    /\ \E p \in 1..Len(insights) : insights[p].priority = "medium"
    /\ \E p \in 1..Len(insights) : insights[p].priority = "high"

OfPriority(s, priority) == SelectSeq(s, LAMBDA x : x.priority = priority)

KpiPosition(k) == CHOOSE i \in 1..Len(kpiData) : kpiData[i].id = k

DistinctKpiIds ==
    \A i \in 1..Len(kpiData) : \A j \in 1..Len(kpiData) :
        kpiData[i].id = kpiData[j].id => i = j

\* C8: insights of equal priority keep their generation order: the order of
\* their KPIs in the input list and, for one KPI, the order of the rule table.
C8_StableAmongEqualPriority ==
    Generated =>
        /\ \A priority \in {"high", "medium", "low"} :
              OfPriority(insights, priority)
                  = OfPriority(Pushed(kpiData, clk), priority)
        /\ DistinctKpiIds =>
              \A p \in 1..Len(insights) : \A q \in 1..Len(insights) :
                  (p < q /\ insights[p].priority = insights[q].priority) =>
                      \/ KpiPosition(insights[p].kpiId) < KpiPosition(insights[q].kpiId)
                      \/ /\ insights[p].kpiId = insights[q].kpiId
                         /\ RuleIndex(insights[p].id[1]) < RuleIndex(insights[q].id[1])

\* two KPIs with high insights each, the first also with a medium one that
\* the sort moves behind the second KPI's
C8_Witness ==
    /\ Generated
    /\ Len(kpiData) = 2
    /\ DistinctKpiIds
    /\ insights # Pushed(kpiData, clk)
    /\ Len(OfPriority(insights, "high")) >= 4
    /\ \E p \in 1..Len(insights) : \E q \in 1..Len(insights) :
          /\ p < q
          /\ insights[p].priority = "high" /\ insights[q].priority = "high"
          /\ insights[p].kpiId = kpiData[1].id /\ insights[q].kpiId = kpiData[2].id

\* C9: the insights of one generateInsights run have pairwise different ids.
C9_IdsUniquePerRun ==
    Generated =>
        \A p \in 1..Len(insights) : \A q \in 1..Len(insights) :
            insights[p].id = insights[q].id => p = q

\* C10: two calls on the same list return the same kpiId, title and priority
\* at every position, whatever the clock read during each.
C10_Deterministic ==
    calls >= 2 => Content(insights) = prev

\* a call whose clock ticked between its pushes, after a call during which
\* the clock stood still (the clock never runs backwards, so a first reading
\* of 0 in this call means every reading of the call before was 0)
C10_Witness ==
    /\ calls >= 2
    /\ Len(insights) >= 3
    /\ clk[1] = 0
    /\ \E p \in 1..Len(insights) : \E q \in 1..Len(insights) :
          /\ insights[p].priority = insights[q].priority
          /\ insights[p].id[3] # insights[q].id[3]
    /\ Content(insights) = prev

-----------------------------------------------------------------------------
(* The pipeline of app/services/api-client.ts: a raw reading is annotated   *)
(* with calculateHealthStatus, and insights are generated from the result.  *)

Trends == {"up", "down", "stable"}

\* kpi-definitions.ts: the ids that have a KPI definition, with the category
\* of each
kpiDefinitions ==
    [k \in {"revenue", "revenue-growth", "profit-margin", "expense-ratio",
            "cac", "ltv-cac-ratio", "mrr", "arr", "market-share"} |-> "financial"]
    @@ [k \in {"customer-health", "churn-rate", "clv", "nps", "csat"} |-> "customer"]
    @@ [k \in {"operational-efficiency", "employee-satisfaction"} |-> "operational"]

\* the current values of rawKPIData, and values at and around the limits the
\* rules and the bands of profit-margin, expense-ratio and revenue-growth use
PipelineValues ==
    {Dec(850000, 0), Dec(8, 50), Dec(12, 80), Dec(87, 20), Dec(72, 50),
     Dec(6, 20), Dec(4200, 0), Dec(850, 0), Dec(4, 94), Dec(125000, 0),
     Dec(1500000, 0), Dec(42, 0), Dec(78, 0), Dec(68, 0), Dec(71, 0),
     Dec(12, 50)}
    \cup {Dec(8, 0), Dec(9, 90), Dec(9, 95), Dec(20, 0), Dec(25, 0),
          Dec(85, 0), Dec(85, 1), Dec(90, 0), Dec(90, 5), Dec(90, 10)}

InitPipeline ==
    /\ registry = thresholdRules
    /\ ruleTable = insightRules
    /\ kpiId \in KpiIds
    /\ value \in PipelineValues
    /\ trend \in Trends
    /\ status = "none"
    /\ NoInsightCall

\* api-client.ts:351-354, for one reading:
\* {...kpi, healthStatus: calculateHealthStatus(kpi.id, kpi.currentValue)}
Annotate ==
    /\ kpiData = <<>>
    /\ status' = calculateHealthStatus(kpiId, value)
    /\ kpiData' = <<[id |-> kpiId, currentValue |-> value, trend |-> trend,
                    healthStatus |-> calculateHealthStatus(kpiId, value)]>>
    /\ UNCHANGED <<registry, ruleTable, kpiId, value, trend, clk, insights, prev, calls,
                   now, forKpi, storeVars>>

\* api-client.ts:357: generateInsights over the annotated reading
GenerateFromAnnotated ==
    /\ kpiData # <<>>
    /\ GenerateInsights

NextPipeline == Annotate \/ GenerateFromAnnotated

SpecPipeline == InitPipeline /\ [][NextPipeline]_vars

-----------------------------------------------------------------------------
(* Claims about the pipeline *)

Annotated == kpiData # <<>>

\* C11: for a profit-margin reading with trend down that is classified
\* critical, generateInsights over that one KPI returns exactly two insights,
\* both high: profit-margin erosion, then critical profit margin.
C11_ProfitMarginTwoInsights ==
    (/\ Annotated /\ Generated
     /\ kpiId = "profit-margin" /\ trend = "down" /\ status = "critical")
        => Content(insights)
             = << [kpiId |-> "profit-margin",
                   title |-> "Profit Margin Under Pressure", priority |-> "high"],
                  [kpiId |-> "profit-margin",
                   title |-> "Critical Profit Margin Alert", priority |-> "high"] >>

\* C12: an expense-ratio reading with trend up and 85 < value <= 90 is
\* classified warning and yields exactly one insight, the rising expense
\* ratio insight, of medium priority.
C12_ExpenseRatioRising ==
    (/\ Annotated /\ Generated
     /\ kpiId = "expense-ratio" /\ trend = "up"
     /\ value > Dec(85, 0) /\ value <= Dec(90, 0))
        => /\ status = "warning"
           /\ kpiData[1].healthStatus = "warning"
           /\ Content(insights)
                = << [kpiId |-> "expense-ratio",
                      title |-> "Expense Ratio Rising", priority |-> "medium"] >>

C12_Witness ==
    /\ Annotated /\ Generated
    /\ kpiId = "expense-ratio" /\ trend = "up" /\ value = Dec(87, 20)
    /\ status = "warning"
    /\ Len(insights) = 1
    /\ insights[1].id[1] = "expense-ratio-increase"

\* C17: every reading the system classifies has a threshold rule and a KPI
\* definition; none is classified by the default for lack of one.
C17_ReadingsHaveRuleAndDefinition ==
    Annotated =>
        /\ kpiData[1].id \in DOMAIN registry
        /\ kpiData[1].id \in DOMAIN kpiDefinitions

\* C18: a revenue-growth reading with trend up and value 20 or more is
\* classified excellent and yields the medium-priority insight
\* 'Exceptional Growth Performance'.
C18_ExcellentGrowth ==
    (/\ Annotated /\ Generated
     /\ kpiId = "revenue-growth" /\ trend = "up" /\ value >= Dec(20, 0))
        => /\ status = "excellent"
           /\ \E p \in 1..Len(insights) :
                 /\ insights[p].title = "Exceptional Growth Performance"
                 /\ insights[p].priority = "medium"

\* C19: every insight generateInsights returns was produced by a rule whose
\* target kpiId is the insight's kpiId.
C19_RuleTargetsInsightKpi ==
    Generated =>
        \A p \in 1..Len(insights) :
            insightRules[RuleIndex(insights[p].id[1])].kpiId = insights[p].kpiId

-----------------------------------------------------------------------------
(* getInsightsForKPI next to generateInsights over one list *)

\* the ids asked for: ids of the list and an id no list holds
AskedIds == SampleIds \cup {"cac"}

\* kpiData.find(kpi => kpi.id === kpiId): the index of the first match, 0 if
\* there is none
find(list, k) ==
    IF \E i \in 1..Len(list) : list[i].id = k
    THEN CHOOSE i \in 1..Len(list) :
            /\ list[i].id = k
            /\ \A h \in 1..(i - 1) : list[h].id # k
    ELSE 0

\* the rules that pass the if at insight-rules.ts:168, in table order
TargetRules(k, data) ==
    SelectSeq(ruleTable, LAMBDA rule : rule.kpiId = k /\ condition(rule, data))

\* getInsightsForKPI(k, list): push number n reads the clock twice, as in
\* generateInsights; the result is returned unsorted
getInsightsForKPI(k, list, readings) ==
    IF find(list, k) = 0 THEN <<>>
    ELSE LET data == list[find(list, k)]
             fired == TargetRules(k, data)
         IN  [n \in 1..Len(fired) |->
                 NewInsight(fired[n], data, readings[2 * n - 1], readings[2 * n])]

\* the number of clock reads of getInsightsForKPI(k, list)
ForKpiReads(k, list) ==
    IF find(list, k) = 0 THEN 0
    ELSE 2 * Len(TargetRules(k, list[find(list, k)]))

InitForKpi ==
    /\ registry = thresholdRules
    /\ ruleTable = insightRules
    /\ kpiId \in AskedIds
    /\ value = 0
    /\ trend = "stable"
    /\ status = "none"
    /\ kpiData \in KpiLists
    /\ clk = <<>>
    /\ insights = <<>>
    /\ prev = <<>>
    /\ calls = 0
    /\ now = 0
    /\ forKpi = <<>>
    /\ NoStore

\* generateInsights(kpiData), called once
GenerateOnce ==
    /\ calls = 0
    /\ GenerateInsights

\* one call getInsightsForKPI(kpiId, kpiData)
ForKpiCall ==
    /\ \E readings \in Readings(ForKpiReads(kpiId, kpiData), now) :
          /\ clk' = readings
          /\ forKpi' = getInsightsForKPI(kpiId, kpiData, readings)
          /\ now' = IF readings = <<>> THEN now ELSE readings[Len(readings)]
    /\ calls' = calls + 1
    /\ UNCHANGED <<registry, ruleTable, kpiId, value, status, kpiData, trend,
                   insights, prev, storeVars>>

\* getInsightsForKPI(kpiId, kpiData), called after generateInsights on the
\* same list
GetInsightsForKPI ==
    /\ calls = 1
    /\ ForKpiCall

NextForKpi == GenerateOnce \/ GetInsightsForKPI

SpecForKpi == InitForKpi /\ [][NextForKpi]_vars

BothCalled == calls = 2

\* C20: for a list with pairwise distinct ids, getInsightsForKPI(k, list)
\* returns the insights of generateInsights(list) whose kpiId is k, with the
\* same titles and priorities in the same relative order, and nothing when k
\* is not in the list.
C20_ForKpiIsFilterOfGenerate ==
    (BothCalled /\ DistinctKpiIds) =>
        /\ Content(forKpi)
             = Content(SelectSeq(insights, LAMBDA x : x.kpiId = kpiId))
        /\ (find(kpiData, kpiId) = 0 => forKpi = <<>>)

-----------------------------------------------------------------------------
(* The service modules src/services/mock-api.ts and                         *)
(* app/services/api-client.ts: the data each serves, the insight store      *)
(* mockInsights, and mockAPI.updateInsight.                                 *)

Services == {"mock-api", "api-client"}

\* api-client.ts:108-349, in hundredths
rawKPIData ==
    << [id |-> "revenue", currentValue |-> Dec(850000, 0), trend |-> "down"],
       [id |-> "revenue-growth", currentValue |-> Dec(8, 50), trend |-> "down"],
       [id |-> "profit-margin", currentValue |-> Dec(12, 80), trend |-> "down"],
       [id |-> "expense-ratio", currentValue |-> Dec(87, 20), trend |-> "up"],
       [id |-> "customer-health", currentValue |-> Dec(72, 50), trend |-> "down"],
       [id |-> "churn-rate", currentValue |-> Dec(6, 20), trend |-> "up"],
       [id |-> "clv", currentValue |-> Dec(4200, 0), trend |-> "stable"],
       [id |-> "cac", currentValue |-> Dec(850, 0), trend |-> "up"],
       [id |-> "ltv-cac-ratio", currentValue |-> Dec(4, 94), trend |-> "down"],
       [id |-> "mrr", currentValue |-> Dec(125000, 0), trend |-> "down"],
       [id |-> "arr", currentValue |-> Dec(1500000, 0), trend |-> "down"],
       [id |-> "nps", currentValue |-> Dec(42, 0), trend |-> "down"],
       [id |-> "csat", currentValue |-> Dec(78, 0), trend |-> "down"],
       [id |-> "operational-efficiency", currentValue |-> Dec(68, 0), trend |-> "down"],
       [id |-> "employee-satisfaction", currentValue |-> Dec(71, 0), trend |-> "down"],
       [id |-> "market-share", currentValue |-> Dec(12, 50), trend |-> "down"] >>

mockKPIData_AllWarning(s) ==
    [i \in 1..(IF s = "mock-api" THEN 5 ELSE Len(rawKPIData)) |->
        [id |-> rawKPIData[i].id, currentValue |-> rawKPIData[i].currentValue,
         trend |-> rawKPIData[i].trend, healthStatus |-> "warning"]]

\* mock-api.ts:22-103 lists five KPIs with a written-out healthStatus;
\* api-client.ts:351-354 maps rawKPIData through calculateHealthStatus
mockKPIData(s) ==
    IF s = "mock-api"
    THEN [i \in 1..5 |->
            [id |-> rawKPIData[i].id, currentValue |-> rawKPIData[i].currentValue,
             trend |-> rawKPIData[i].trend, healthStatus |-> "warning"]]
    ELSE [i \in 1..Len(rawKPIData) |->
            [id |-> rawKPIData[i].id, currentValue |-> rawKPIData[i].currentValue,
             trend |-> rawKPIData[i].trend,
             healthStatus |-> calculateHealthStatus(rawKPIData[i].id,
                                                    rawKPIData[i].currentValue)]]

\* mock-api.ts:183-195 and api-client.ts:444-458; scores and weights in
\* hundredths
mockBusinessHealthScore(s) ==
    IF s = "mock-api"
    THEN [overall |-> Dec(68, 0), financial |-> Dec(65, 0),
          operational |-> Dec(70, 0), customer |-> Dec(72, 0),
          status |-> "warning",
          factors |->
            << [category |-> "Revenue Growth", score |-> Dec(55, 0), weight |-> Dec(0, 30)],
               [category |-> "Profitability", score |-> Dec(65, 0), weight |-> Dec(0, 25)],
               [category |-> "Cost Efficiency", score |-> Dec(70, 0), weight |-> Dec(0, 20)],
               [category |-> "Customer Satisfaction", score |-> Dec(72, 0), weight |-> Dec(0, 25)] >>]
    ELSE [overall |-> Dec(68, 0), financial |-> Dec(65, 0),
          operational |-> Dec(70, 0), customer |-> Dec(68, 0),
          status |-> "warning",
          factors |->
            << [category |-> "Revenue Growth", score |-> Dec(55, 0), weight |-> Dec(0, 20)],
               [category |-> "Profitability", score |-> Dec(65, 0), weight |-> Dec(0, 20)],
               [category |-> "Cost Efficiency", score |-> Dec(70, 0), weight |-> Dec(0, 20)],
               [category |-> "Customer Satisfaction", score |-> Dec(72, 0), weight |-> Dec(0, 20)],
               [category |-> "Churn Management", score |-> Dec(58, 0), weight |-> Dec(0, 10)],
               [category |-> "Customer Lifetime Value", score |-> Dec(75, 0), weight |-> Dec(0, 10)] >>]

\* updateInsight calls in one run of the served store
MaxUpdates == 1

\* data: {} as Insight
EmptyObject == [f \in {} |-> 0]

\* an id no rule produces, for 'nonexistent-id'
UnknownId == <<"nonexistent", "id", 0>>

\* the updates objects of the sampled calls: Partial<Insight>
Patches ==
    { [title |-> "Revised title"],
      [priority |-> "low", isAutoGenerated |-> FALSE],
      EmptyObject }

\* the insightId arguments of the sampled calls: the ids of the first and of
\* the last record of the store, and an id the store does not hold
Targets ==
    IF mockInsights = <<>> THEN {UnknownId}
    ELSE {mockInsights[1].id, mockInsights[Len(mockInsights)].id, UnknownId}

\* mockInsights.findIndex(i => i.id === insightId)
findIndex_FirstWhenMissing(list, insightId) ==
    IF \E p \in 1..Len(list) : list[p].id = insightId
    THEN CHOOSE p \in 1..Len(list) :
            /\ list[p].id = insightId
            /\ \A h \in 1..(p - 1) : list[h].id # insightId
    ELSE 1

findIndex(list, insightId) ==
    IF \E p \in 1..Len(list) : list[p].id = insightId
    THEN CHOOSE p \in 1..Len(list) :
            /\ list[p].id = insightId
            /\ \A h \in 1..(p - 1) : list[h].id # insightId
    ELSE -1

\* the object spread { ...record, ...updates }
spread_UpdatesOnly(record, updates) ==
    [f \in DOMAIN updates |-> updates[f]]

spread(record, updates) ==
    [f \in DOMAIN record \cup DOMAIN updates |->
        IF f \in DOMAIN updates THEN updates[f] ELSE record[f]]

\* module load: mockInsights = generateInsights(mockKPIData), the clock read
\* twice at every push as in any other call
Loaded(s, readings) == generateInsights(mockKPIData(s), readings)

\* the process before it imports a service module
InitStore ==
    /\ registry = thresholdRules
    /\ ruleTable = insightRules
    /\ kpiId = "revenue"
    /\ value = 0
    /\ trend = "stable"
    /\ status = "none"
    /\ service = "none"
    /\ kpiData = <<>>
    /\ mockInsights = <<>>
    /\ now = 0
    /\ clk = <<>>
    /\ insights = <<>>
    /\ prev = <<>>
    /\ calls = 0
    /\ forKpi = <<>>
    /\ pending = {}
    /\ started = 0
    /\ response = NoResponse

\* a service module was imported: mockAPI and its data exist
ModuleLoaded == service # "none"

\* the import of service module s: its top-level statements build the KPI
\* data and the insight store
LoadModule ==
    /\ ~ModuleLoaded
    /\ \E s \in Services :
          \E readings \in Readings(2 * Len(Pairs(mockKPIData(s), 1)), 0) :
             /\ service' = s
             /\ kpiData' = mockKPIData(s)
             /\ mockInsights' = Loaded(s, readings)
             /\ now' = readings[Len(readings)]
    /\ UNCHANGED <<registry, ruleTable, kpiId, value, status, clk, insights,
                   prev, calls, trend, forKpi, pending, started, response>>

\* updateInsight(insightId, updates) is called, with updates from the set
\* patches, and waits in await mockAPI.delay(300)
CallUpdate(patches, limit) ==
    /\ ModuleLoaded
    /\ started < limit
    /\ \E insightId \in Targets, updates \in patches :
          pending' = pending \cup
                        {[n |-> started + 1, insightId |-> insightId,
                          updates |-> updates]}
    /\ started' = started + 1

StartUpdate ==
    /\ CallUpdate(Patches, MaxUpdates)
    /\ UNCHANGED <<registry, ruleTable, kpiId, value, status, kpiData, clk,
                   insights, prev, calls, now, trend, forKpi, mockInsights,
                   response, service>>

\* the rest of updateInsight, run in one piece when the delay of call c is
\* over, at clock reading t
updateInsight(c, t) ==
    LET insightIndex == findIndex(mockInsights, c.insightId) IN
    /\ pending' = pending \ {c}
    /\ now' = t
    /\ IF insightIndex = -1
       THEN /\ mockInsights' = mockInsights
            /\ response' =
                 [op |-> "updateInsight", insightId |-> c.insightId,
                  updates |-> c.updates,
                  result |-> [data |-> EmptyObject, success |-> FALSE,
                              message |-> "Insight not found",
                              timestamp |-> t]]
       ELSE /\ mockInsights' =
                 [mockInsights EXCEPT
                    ![insightIndex] = spread(mockInsights[insightIndex], c.updates)]
            /\ response' =
                 [op |-> "updateInsight", insightId |-> c.insightId,
                  updates |-> c.updates,
                  result |-> [data |-> spread(mockInsights[insightIndex], c.updates),
                              success |-> TRUE, timestamp |-> t]]

\* the timers of the pending calls all run 300 ms, so they fire in the
\* order the calls were made: the call that finishes is the oldest one
IsOldest(c) == c \in pending /\ \A d \in pending : c.n <= d.n

FinishUpdate ==
    \E c \in pending : \E t \in now..MaxClock :
        /\ IsOldest(c)
        /\ updateInsight(c, t)
        /\ UNCHANGED <<registry, ruleTable, kpiId, value, status, kpiData, clk,
                       insights, prev, calls, trend, forKpi, started, service>>

\* the answer of getDashboardData() at clock reading t
DashboardAnswer(t) ==
    [op |-> "getDashboardData",
     result |-> [data |-> [kpis |-> kpiData,
                           insights |-> mockInsights,
                           businessHealthScore |-> mockBusinessHealthScore(service)],
                 success |-> TRUE, timestamp |-> t]]

\* getDashboardData(): the answer after the delay
GetDashboardData ==
    /\ ModuleLoaded
    /\ \E t \in now..MaxClock :
          /\ now' = t
          /\ response' = DashboardAnswer(t)
    /\ UNCHANGED <<registry, ruleTable, kpiId, value, status, kpiData, clk,
                   insights, prev, calls, trend, forKpi, mockInsights, pending,
                   started, service>>

NextStore == LoadModule \/ StartUpdate \/ FinishUpdate \/ GetDashboardData

SpecStore == InitStore /\ [][NextStore]_vars

-----------------------------------------------------------------------------
(* Claims about the services *)

\* the call c leaves its delay and runs to its return in this step
Finishes(c) == c \in pending /\ pending' = pending \ {c}

\* the positions of the store whose record has the id
Holding(insightId) == {p \in 1..Len(mockInsights) : mockInsights[p].id = insightId}

\* C13: updateInsight with an id that matches no insight of the store answers
\* success = false with the message 'Insight not found' and leaves the store
\* as it was: the same records in the same order.
C13_UnknownIdLeavesStore ==
    [][\A c \in pending :
          (Finishes(c) /\ Holding(c.insightId) = {})
            => /\ mockInsights' = mockInsights
               /\ response'.op = "updateInsight"
               /\ response'.insightId = c.insightId
               /\ response'.result.success = FALSE
               /\ response'.result.message = "Insight not found"]_vars

C13_Witness ==
    /\ response.op = "updateInsight"
    /\ response.insightId = UnknownId
    /\ response.updates = [title |-> "Revised title"]
    /\ response.result.success = FALSE
    /\ mockInsights # <<>>
    /\ \A p \in 1..Len(mockInsights) : mockInsights[p].title # "Revised title"

\* C14: updateInsight with a known id and a partial patch overwrites, in the
\* matching record, exactly the fields of the patch; every other field of
\* that record, every other record, and the number and order of the records
\* stay as they were; the answer is success = true with the updated record.
C14_PatchOverwritesOnlyGivenFields ==
    [][\A c \in pending :
          (Finishes(c) /\ Holding(c.insightId) # {})
            => LET idx == CHOOSE p \in Holding(c.insightId) :
                              \A h \in Holding(c.insightId) : p <= h
                   old == mockInsights[idx]
                   new == mockInsights'[idx]
               IN  /\ Len(mockInsights') = Len(mockInsights)
                   /\ \A p \in 1..Len(mockInsights) :
                         p # idx => mockInsights'[p] = mockInsights[p]
                   /\ DOMAIN new = DOMAIN old \cup DOMAIN c.updates
                   /\ \A f \in DOMAIN c.updates : new[f] = c.updates[f]
                   /\ \A f \in DOMAIN old \ DOMAIN c.updates : new[f] = old[f]
                   /\ response'.result.success = TRUE
                   /\ response'.result.data = new]_vars

C14_Witness ==
    /\ response.op = "updateInsight"
    /\ response.result.success = TRUE
    /\ response.updates = [priority |-> "low", isAutoGenerated |-> FALSE]
    /\ \E p \in 1..Len(mockInsights) :
          /\ mockInsights[p] = response.result.data
          /\ mockInsights[p].priority = "low"
          /\ mockInsights[p].isAutoGenerated = FALSE
          /\ mockInsights[p].id = response.insightId
          /\ mockInsights[p].title # "Revised title"

\* a composite health score has been served
ScoreServed == response.op = "getDashboardData"

ServedScore == response.result.data.businessHealthScore

\* the global banding: >= 80 excellent, >= 60 good, >= 40 warning, else critical
GlobalBand(overall) ==
    IF overall >= Dec(80, 0) THEN "excellent"
    ELSE IF overall >= Dec(60, 0) THEN "good"
    ELSE IF overall >= Dec(40, 0) THEN "warning"
    ELSE "critical"

\* C15: in every served composite health score, status is the band of
\* overall under the global banding (>= 80 excellent, >= 60 good,
\* >= 40 warning, else critical).
C15_StatusIsGlobalBand ==
    ScoreServed => ServedScore.status = GlobalBand(ServedScore.overall)

RECURSIVE WeightSum(_, _)
\* the sum of the weights of the first n factors
WeightSum(factors, n) ==
    IF n = 0 THEN 0 ELSE WeightSum(factors, n - 1) + factors[n].weight

RECURSIVE WeightedSum(_, _)
\* the sum of score * weight over the first n factors
WeightedSum(factors, n) ==
    IF n = 0 THEN 0
    ELSE WeightedSum(factors, n - 1) + factors[n].score * factors[n].weight

\* C16: when the weights of the factor list sum to 1, overall is the sum of
\* score * weight over the factor list; this holds for the served score.
C16_OverallIsWeightedSum ==
    (ScoreServed /\ WeightSum(ServedScore.factors, Len(ServedScore.factors)) = Dec(1, 0))
        => ServedScore.overall * Dec(1, 0)
             = WeightedSum(ServedScore.factors, Len(ServedScore.factors))

-----------------------------------------------------------------------------
(* Independence of the KPIs of one list *)

\* kpiId, title and priority of generateInsights([kpiData[i]])
Single(i) ==
    Content(generateInsights(<<kpiData[i]>>,
                [n \in 1..(2 * Len(FiredRules(kpiData[i]))) |-> 0]))

RECURSIVE Singles(_)
\* the results of the single-KPI calls for positions i and later, one after
\* the other
Singles(i) ==
    IF i > Len(kpiData) THEN <<>> ELSE Single(i) \o Singles(i + 1)

Count(s, x) == Cardinality({p \in 1..Len(s) : s[p] = x})

Elements(s) == {s[p] : p \in 1..Len(s)}

\* C21: the multiset of (kpiId, title, priority) that generateInsights(list)
\* returns is the union of the multisets returned for each single-KPI list.
C21_IndependentPerKpi ==
    Generated =>
        LET whole == Content(insights)
            parts == Singles(1)
        IN  \A x \in Elements(whole) \cup Elements(parts) :
                Count(whole, x) = Count(parts, x)

C21_Witness ==
    /\ Generated
    /\ Len(kpiData) = 2
    /\ Single(1) # <<>>
    /\ Single(2) # <<>>
    /\ kpiData[1].id # kpiData[2].id
    /\ Content(insights) # Singles(1)

-----------------------------------------------------------------------------
(* The KPI records the services serve *)

KpisServed == response.op = "getDashboardData"

ServedKpis == response.result.data.kpis

\* C22: every served KPI record is a classified KPI: its healthStatus is
\* calculateHealthStatus(id, currentValue) for its own id and currentValue.
C22_ServedKpisAreClassified ==
    KpisServed =>
        \A i \in 1..Len(ServedKpis) :
            ServedKpis[i].healthStatus
                = calculateHealthStatus(ServedKpis[i].id, ServedKpis[i].currentValue)

C22_Witness ==
    /\ KpisServed
    /\ service = "api-client"
    /\ Len(ServedKpis) = Len(rawKPIData)
    /\ \E i \in 1..Len(ServedKpis) :
          ServedKpis[i].id = "cac" /\ ServedKpis[i].healthStatus = "good"
    /\ \E i \in 1..Len(ServedKpis) :
          ServedKpis[i].id = "revenue" /\ ServedKpis[i].healthStatus = "warning"

-----------------------------------------------------------------------------
(* The stamps on emitted insights *)

\* insight x was emitted for the KPI record data by the rule its id names
StampedFor(x, data) ==
    /\ x.isAutoGenerated = TRUE
    /\ x.kpiId = data.id
    /\ x.id[2] = data.id
    /\ condition(insightRules[RuleIndex(x.id[1])], data)
    /\ x.priority = insightRules[RuleIndex(x.id[1])].priority

\* C23: every insight generateInsights or getInsightsForKPI emits has
\* isAutoGenerated = true, the kpiId of the KPI it was generated from, and the
\* priority declared on the rule that fired.
C23_EmittedInsightsStamped ==
    /\ \A p \in 1..Len(insights) :
          \E i \in 1..Len(kpiData) : StampedFor(insights[p], kpiData[i])
    /\ \A p \in 1..Len(forKpi) :
          /\ forKpi[p].kpiId = kpiId
          /\ StampedFor(forKpi[p], kpiData[find(kpiData, kpiId)])

C23_Witness ==
    /\ BothCalled
    /\ Len(forKpi) >= 1
    /\ Len(insights) > Len(forKpi)
    /\ \E p \in 1..Len(insights) :
          insightRules[RuleIndex(insights[p].id[1])].kpiId # insights[p].kpiId
    /\ \E p \in 1..Len(insights) : insights[p].priority = "medium"

-----------------------------------------------------------------------------
(* The static configuration under every operation, in any order: the        *)
(* classifier, the range check, both insight functions and updateInsight    *)
(* on a store loaded from the list.                                         *)

\* the lists passed to the insight functions: empty or one KPI
ConfigLists == {list \in KpiLists : Len(list) <= 1}

\* the id arguments: one with a threshold rule, which a list may hold, and
\* one without
ConfigIds == {"profit-margin", "cac"}

\* services/mock-api.ts imported with mockKPIData = kpiData: the statement
\* at mock-api.ts:106 has built the store from the list
InitConfig ==
    /\ registry = thresholdRules
    /\ ruleTable = insightRules
    /\ kpiId \in ConfigIds
    /\ value = Dec(8, 0)
    /\ trend = "stable"
    /\ status = "none"
    /\ kpiData \in ConfigLists
    /\ \E readings \in Readings(2 * Len(Pairs(kpiData, 1)), 0) :
          /\ mockInsights = generateInsights(kpiData, readings)
          /\ now = IF readings = <<>> THEN 0 ELSE readings[Len(readings)]
    /\ clk = <<>>
    /\ insights = <<>>
    /\ prev = <<>>
    /\ calls = 0
    /\ forKpi = <<>>
    /\ pending = {}
    /\ started = 0
    /\ response = NoResponse
    /\ service = "mock-api"

\* one call isWithinThreshold(kpiId, value, status), on the state that
\* calculateHealthStatus returned for the reading
IsWithinThreshold ==
    /\ status \in BandNames
    /\ response' = [op |-> "isWithinThreshold", status |-> status,
                    result |-> isWithinThreshold(kpiId, value, status)]
    /\ UNCHANGED <<registry, ruleTable, kpiId, value, status, kpiData, clk,
                   insights, prev, calls, now, trend, forKpi, mockInsights,
                   pending, started, service>>

\* the calls of the insight functions and of updateInsight made so far
CallsMade == calls + started

ConfigGenerate == CallsMade < MaxCalls /\ GenerateInsights

ConfigForKpi == CallsMade < MaxCalls /\ ForKpiCall

ConfigUpdate == CallsMade < MaxCalls /\ StartUpdate

NextConfig ==
    \/ Classify
    \/ IsWithinThreshold
    \/ ConfigGenerate
    \/ ConfigForKpi
    \/ ConfigUpdate
    \/ FinishUpdate

SpecConfig == InitConfig /\ [][NextConfig]_vars

\* C24: no call of calculateHealthStatus, isWithinThreshold, generateInsights,
\* getInsightsForKPI or updateInsight, in any order, changes the threshold
\* registry, the insight rule table or the KPI readings passed to it.
C24_ConfigurationImmutable ==
    [][/\ registry' = registry
       /\ ruleTable' = ruleTable
       /\ kpiData' = kpiData]_vars

C24_Witness ==
    /\ status # "none"
    /\ response.op = "updateInsight"
    /\ response.result.success = TRUE
    /\ insights # <<>>
    /\ kpiData # <<>>
    /\ registry = thresholdRules
    /\ ruleTable = insightRules

-----------------------------------------------------------------------------
(* The insight store under edits of any field, with the answers of the      *)
(* service calls kept in order in prev.                                     *)

\* patches that overwrite the id with the id of the first or of the last
\* record of the store
IdPatches == {[id |-> i] : i \in Targets \ {UnknownId}}

\* one entry of the history: the answer, and for updateInsight the number of
\* the call, the index findIndex gave it and the number of updateInsight
\* calls made by the time it answered
Answered(answer, n, index, called) ==
    [answer |-> answer, n |-> n, index |-> index, called |-> called]

\* The data of a getInsights answer and the data.insights of a
\* getDashboardData answer are the array mockInsights itself, not a copy
\* (mock-api.ts:275, 249): an answer given earlier shows the array as it is
\* now. An updateInsight answer holds the record object it built, which no
\* later call changes.
Aliased(answer, store) ==
    IF answer.op = "getInsights" THEN [answer EXCEPT !.result.data = store]
    ELSE IF answer.op = "getDashboardData"
    THEN [answer EXCEPT !.result.data.insights = store]
    ELSE answer

\* the answers of the history as their holders see them when the array is
\* store
Live(history, store) ==
    [i \in 1..Len(history) |->
        [history[i] EXCEPT !.answer = Aliased(@, store)]]

StartEdit ==
    /\ CallUpdate(Patches \cup IdPatches, MaxCalls)
    /\ UNCHANGED <<registry, ruleTable, kpiId, value, status, kpiData, clk,
                   insights, prev, calls, now, trend, forKpi, mockInsights,
                   response, service>>

FinishEdit ==
    \E c \in pending : \E t \in now..MaxClock :
        /\ IsOldest(c)
        /\ updateInsight(c, t)
        /\ prev' = Append(Live(prev, mockInsights'),
                          Answered(response', c.n,
                                   findIndex(mockInsights, c.insightId),
                                   started))
        /\ UNCHANGED <<registry, ruleTable, kpiId, value, status, kpiData, clk,
                       insights, calls, trend, forKpi, started, service>>

\* the answer of getInsights() at clock reading t
InsightsAnswer(t) ==
    [op |-> "getInsights",
     result |-> [data |-> mockInsights, success |-> TRUE, timestamp |-> t]]

\* getInsights() or getDashboardData(): the answer after the delay; at most
\* MaxCalls + 1 answers are kept
ReadInsights ==
    /\ ModuleLoaded
    /\ Len(prev) <= MaxCalls
    /\ \E t \in now..MaxClock :
          /\ now' = t
          /\ response' \in {InsightsAnswer(t), DashboardAnswer(t)}
          /\ prev' = Append(prev, Answered(response', 0, 0, 0))
    /\ UNCHANGED <<registry, ruleTable, kpiId, value, status, kpiData, clk,
                   insights, calls, trend, forKpi, mockInsights, pending,
                   started, service>>

NextEdit == LoadModule \/ StartEdit \/ FinishEdit \/ ReadInsights

SpecEdit == InitStore /\ [][NextEdit]_vars

IsUpdate(entry) == entry.answer.op = "updateInsight"

IsRead(entry) == entry.answer.op \in {"getInsights", "getDashboardData"}

\* the insight sequence a read answer carries
InsightsOf(entry) ==
    IF entry.answer.op = "getInsights" THEN entry.answer.result.data
    ELSE entry.answer.result.data.insights

Carries(record, updates) ==
    \A f \in DOMAIN updates : f \in DOMAIN record /\ record[f] = updates[f]

\* C25: when two updateInsight calls for the same existing id are in flight
\* together (d was called after c and before c completed) with patches over
\* disjoint fields, the stored record carries both patches once both have
\* completed.
C25_NoLostUpdate ==
    \A i \in 1..Len(prev) :
        LET c == prev[i]
            d == prev[Len(prev)]
        IN  (/\ i < Len(prev)
             /\ pending = {}
             /\ IsUpdate(c) /\ IsUpdate(d)
             /\ c.answer.insightId = d.answer.insightId
             /\ c.n < d.n /\ d.n <= c.called
             /\ c.index # -1
             /\ DOMAIN c.answer.updates \cap DOMAIN d.answer.updates = {})
            => \E p \in 1..Len(mockInsights) :
                  /\ Carries(mockInsights[p], c.answer.updates)
                  /\ Carries(mockInsights[p], d.answer.updates)

\* C26: after updateInsight(id, patch) has answered success = true, every later
\* getInsights and getDashboardData answer holds, when it is given, at the
\* same index the record updateInsight returned, until another successful
\* update of that id. The answer just given is the last entry of the history.
C26_UpdateVisibleToLaterReads ==
    \A i \in 1..Len(prev) :
        LET k == Len(prev) IN
        (/\ i < k
         /\ IsUpdate(prev[i]) /\ prev[i].answer.result.success
         /\ IsRead(prev[k])
         /\ response = prev[k].answer
         /\ \A j \in (i + 1)..(k - 1) :
               ~(/\ IsUpdate(prev[j]) /\ prev[j].answer.result.success
                 /\ prev[j].answer.insightId = prev[i].answer.insightId))
        => InsightsOf(prev[k])[prev[i].index] = prev[i].answer.result.data

\* C27: in every reachable state of the store the sequence is ordered by
\* priority: high before medium before low.
C27_StoreStaysSorted ==
    \A p \in 1..Len(mockInsights) : \A q \in 1..Len(mockInsights) :
        p < q => priorityOrder[mockInsights[p].priority]
                    <= priorityOrder[mockInsights[q].priority]

\* C28: the ids of the store, pairwise distinct initially, are pairwise
\* distinct in every reachable state.
C28_StoreIdsStayDistinct ==
    \A p \in 1..Len(mockInsights) : \A q \in 1..Len(mockInsights) :
        mockInsights[p].id = mockInsights[q].id => p = q

-----------------------------------------------------------------------------
(* Recommendations *)

\* mockInsights[k - 1]?.id || 'insight-k', for the store as loaded
LinkedId(list, k) == IF k <= Len(list) THEN list[k].id ELSE <<"insight", k>>

\* mock-api.ts:143-180 and api-client.ts:404-440: three recommendations, each
\* linked to the insight at its own position of the store as loaded
mockRecommendations(list) ==
    << [id |-> "rec-1", insightId |-> LinkedId(list, 1), kpiId |-> "revenue"],
       [id |-> "rec-2", insightId |-> LinkedId(list, 2), kpiId |-> "profit-margin"],
       [id |-> "rec-3", insightId |-> LinkedId(list, 3), kpiId |-> "customer-health"] >>

\* no updateInsight call has been made: the store is as loaded
InitialDashboard == ModuleLoaded /\ started = 0

\* C29: in the initial dashboard state every recommendation is linked to an
\* insight about the same KPI: its insightId is the id of an insight of the
\* store, and that insight's kpiId is the recommendation's kpiId.
C29_RecommendationsLinked ==
    InitialDashboard =>
        \A k \in 1..Len(mockRecommendations(mockInsights)) :
            LET rec == mockRecommendations(mockInsights)[k] IN
            \E p \in 1..Len(mockInsights) :
                /\ mockInsights[p].id = rec.insightId
                /\ mockInsights[p].kpiId = rec.kpiId

\* the classifier and the range check on one reading
NextAgree == Classify \/ IsWithinThreshold

SpecAgree == InitClassify /\ [][NextAgree]_vars

\* C30: calculateHealthStatus and isWithinThreshold agree: when
\* calculateHealthStatus(k, v) returns a state because a band of a registered
\* KPI matched, isWithinThreshold(k, v, state) is true.
C30_ClassifierAgreesWithRangeCheck ==
    (/\ response.op = "isWithinThreshold"
     /\ kpiId \in DOMAIN registry
     /\ BandTest(registry[kpiId][status], value))
        => response.result = TRUE

====
